---- MODULE Spec2Model ----
(***************************************************************************)
(* Model of src/main.py: the class ManejadorTareas (a forest of Categoria  *)
(* nodes holding Tareas objects, a per-category queue of urgent tasks and  *)
(* the two LIFO histories historial_acciones / historial_deshacer) driven  *)
(* by a caller that invokes one method at a time.                          *)
(*                                                                         *)
(* Python objects are modelled by reference: a Categoria is an index into  *)
(* the arena cats, a Tareas object an index into the heap objs.  Lists of  *)
(* objects are sequences of references, so list.remove (which compares by  *)
(* identity, as Tareas defines no __eq__) is removal of the first          *)
(* occurrence of a reference.                                              *)
(***************************************************************************)
EXTENDS Integers, Sequences, FiniteSets, TLC

(* ------------------------------ bounds -------------------------------- *)
\* number of successful calls that create a category, a task or a history
\* record (agregarCategoria, agregarSubcategoria, agregarTarea, eliminarTarea,
\* modificarTarea, agregarTareaUrgente); the other calls are not bounded
MaxLlamadas == 4

\* longest task list that is listed in order
MaxLista == 3

(* ------------------------------ inputs -------------------------------- *)
\* category names the caller types
Nombres == {"Work", "Urgent"}
\* a date is kept as the integer yyyymmdd, ordered as the datetime is
DatosTarea ==
  { [titulo |-> "Report", descripcion |-> "informe", prioridad |-> 1,
     fecha_vencimiento |-> 20300101],
    [titulo |-> "Email", descripcion |-> "correo", prioridad |-> 3,
     fecha_vencimiento |-> 20250101] }

\* priorities and due dates of the tasks that are listed in order
Prioridades == {1, 2, 3}

Fechas == {20250101, 20300101}

(* --------------------------- Python values ---------------------------- *)
\* None, where a Categoria, a Tareas or an id is expected
None == 0
\* None, where a name is expected (the default of the parameter nombre)
NombreNone == "<None>"

VARIABLES
  categorias,          \* self.categorias: the root categories, in order
  cats,                \* every Categoria object ever constructed
  objs,                \* every Tareas object ever put into a list or queue
  idCategoria,         \* self.idCategoria
  idTarea,             \* self.idTarea
  historial_acciones,  \* self.historial_acciones (LifoQueue): top is last
  historial_deshacer,  \* self.historial_deshacer (LifoQueue): top is last
  resultado,           \* what the last call printed, or the exception
  racha,               \* the run  op ; deshacer ; rehacer  in progress
  nRegistros,          \* successful agregar/eliminar/modificarTarea calls
  nLlamadas,           \* successful creating calls, see MaxLlamadas
  salida,              \* str(tarea) of the tasks the last call printed
  encolados,           \* per category: the tasks put into its queue, in order
  procesados,          \* per category: the tasks got from its queue, in order
  hallada,             \* the last encontrarCategoria(id, nombre) and its result
  ronda                \* a round of undos (and redos) in progress

vars == <<categorias, cats, objs, idCategoria, idTarea, historial_acciones,
          historial_deshacer, resultado, racha, nRegistros, nLlamadas, salida,
          encolados, procesados, hallada, ronda>>

manejador == <<categorias, cats, objs, idCategoria, idTarea,
               historial_acciones, historial_deshacer>>

(* ----------------------------- the classes ---------------------------- *)
Tareas(id, titulo, descripcion, prioridad, fecha_vencimiento) ==
  [id |-> id, titulo |-> titulo, descripcion |-> descripcion,
   prioridad |-> prioridad, fecha_vencimiento |-> fecha_vencimiento]

Categoria(id, nombre) ==
  [id |-> id, nombre |-> nombre, subcategorias |-> <<>>,
   tareasUrgentes |-> <<>>, tareas |-> <<>>]

(* ------------------------------ list ops ------------------------------ *)
Contiene(lista, x) == \E i \in 1..Len(lista) : lista[i] = x

\* index of the first occurrence of x in lista (x occurs in lista)
Primera(lista, x) ==
  CHOOSE i \in 1..Len(lista) :
    lista[i] = x /\ \A j \in 1..(i - 1) : lista[j] # x

\* list.remove(x) on a list that holds x: the first occurrence goes
remove(lista, x) ==
  LET i == Primera(lista, x)
  IN  SubSeq(lista, 1, i - 1) \o SubSeq(lista, i + 1, Len(lista))

\* LifoQueue.put
put(pila, x) == Append(pila, x)

\* Cima as a mutation: the oldest record is read
CimaAlFondo(pila) == pila[1]

\* what LifoQueue.get returns, and what it leaves
Cima(pila) == pila[Len(pila)]
Resto(pila) == SubSeq(pila, 1, Len(pila) - 1)

\* get as a mutation: the queue is a LifoQueue, the newest task comes out
getLifo(cola) ==
  [tarea |-> cola[Len(cola)], resto |-> SubSeq(cola, 1, Len(cola) - 1)]

\* Queue.get on a queue that is not empty: the oldest task, and what is left
get(cola) == [tarea |-> Head(cola), resto |-> Tail(cola)]

\* fecha_vencimiento.strftime("%d/%m/%Y"): day, month and year, in this order
strftime(fecha) == <<fecha % 100, (fecha \div 100) % 100, fecha \div 10000>>

\* Tareas.__str__: titulo - descripcion - Prioridad - Vencimiento, no id
str(tarea) ==
  <<tarea.titulo, tarea.descripcion, tarea.prioridad,
    strftime(tarea.fecha_vencimiento)>>

(* ------------------------------- lookup ------------------------------- *)
RECURSIVE encontrarCategoriaEnSubcategorias(_, _, _)
RECURSIVE BuscarEnSubcategorias(_, _, _)
RECURSIVE BuscarEnCategorias(_, _, _)

\* Coincide as a mutation: 'and' in place of 'or'
CoincideAmbos(c, id, nombre) == cats[c].id = id /\ cats[c].nombre = nombre

Coincide(c, id, nombre) == cats[c].id = id \/ cats[c].nombre = nombre

encontrarCategoriaEnSubcategorias(categoria, id, nombre) ==
  IF Coincide(categoria, id, nombre)
  THEN categoria
  ELSE BuscarEnSubcategorias(cats[categoria].subcategorias, id, nombre)

\* the loop "for subcategoria in ...subcategorias" with its early return
BuscarEnSubcategorias(subcategorias, id, nombre) ==
  IF subcategorias = <<>>
  THEN None
  ELSE LET r == encontrarCategoriaEnSubcategorias(Head(subcategorias), id, nombre)
       IN  IF r # None
           THEN r
           ELSE BuscarEnSubcategorias(Tail(subcategorias), id, nombre)

\* the loop "for categoria in self.categorias"
BuscarEnCategorias(raices, id, nombre) ==
  IF raices = <<>>
  THEN None
  ELSE IF Coincide(Head(raices), id, nombre)
       THEN Head(raices)
       ELSE LET r == BuscarEnSubcategorias(cats[Head(raices)].subcategorias,
                                           id, nombre)
            IN  IF r # None
                THEN r
                ELSE BuscarEnCategorias(Tail(raices), id, nombre)

\* encontrarCategoria as a mutation: the subcategories are not searched
encontrarCategoriaSoloRaices(id, nombre) ==
  IF \E i \in DOMAIN categorias : Coincide(categorias[i], id, nombre)
  THEN categorias[CHOOSE i \in DOMAIN categorias :
         /\ Coincide(categorias[i], id, nombre)
         /\ \A j \in 1..(i - 1) : ~Coincide(categorias[j], id, nombre)]
  ELSE None

encontrarCategoria(id, nombre) == BuscarEnCategorias(categorias, id, nombre)

\* a lookup of the id among all the tasks, whatever list or queue holds them
BuscarTareaEnTodas(lista, idT) ==
  IF \E t \in 1..Len(objs) : objs[t].id = idT
  THEN CHOOSE t \in 1..Len(objs) : objs[t].id = idT
  ELSE None

\* next((tarea for tarea in categoria.tareas if tarea.id == idT), None)
BuscarTarea(lista, idT) ==
  IF \E i \in 1..Len(lista) : objs[lista[i]].id = idT
  THEN lista[CHOOSE i \in 1..Len(lista) :
               /\ objs[lista[i]].id = idT
               /\ \A j \in 1..(i - 1) : objs[lista[j]].id # idT]
  ELSE None

(* --------------------------- history records -------------------------- *)
\* a Tareas object that is in no list and no queue (no snapshot recorded)
SinAnterior == Tareas(None, "", "", None, None)

\* ('agregar', tarea, categoria) / ('eliminar', tarea, categoria)
Registro(accion, tarea, categoria) ==
  [accion |-> accion, tarea_anterior |-> SinAnterior, tarea |-> tarea,
   categoria |-> categoria]

\* ('modificar', tarea_anterior, tarea, categoria)
RegistroModificar(tarea_anterior, tarea, categoria) ==
  [accion |-> "modificar", tarea_anterior |-> tarea_anterior,
   tarea |-> tarea, categoria |-> categoria]

(* ------------------------- observation of runs ------------------------ *)
\* every category's task list and every task's fields
Foto(cs, os) == [tareas |-> [c \in 1..Len(cs) |-> cs[c].tareas], objs |-> os]

RachaVacia ==
  [ops |-> <<>>, tarea |-> None, categoria |-> None,
   pre |-> Foto(<<>>, <<>>), post |-> Foto(<<>>, <<>>)]

\* what a call prints (print, lines 135-422), without the names it interpolates
MsgCategoriaAgregada == "Categoria agregada correctamente."
MsgYaExiste == "Error: La categoria ya existe."
MsgSubcategoriaAgregada == "Subcategoria agregada."
MsgCategoriaNoExiste == "Error: La categoria no existe."
MsgTareaAgregada == "Tarea agregada correctamente."
MsgTareaEliminada == "Tarea eliminada correctamente."
MsgTareaModificada == "Tarea modificada correctamente."
MsgTareaNoExiste == "Error: La tarea no existe."
MsgDeshecha == "Accion deshecha correctamente."
MsgNadaQueDeshacer == "No hay acciones para deshacer."
MsgRehecha == "Accion rehecha correctamente."
MsgNadaQueRehacer == "No hay acciones para rehacer."
MsgUrgenteAgregada == "Tarea urgente anadida"
MsgProcesando == "Procesando tarea urgente"
MsgSinUrgentes == "No hay tareas urgentes en esta categoria."
MsgSinTareas == "No hay tareas en esta categoria."
\* mostrarTareasOrdenadas prints no message of its own, only the tasks
MsgListado == "(one line per task)"

\* f'Tareas urgentes en {categoria_nombre}:'
MsgUrgentesEn(categoria_nombre) ==
  IF categoria_nombre = "Work" THEN "Tareas urgentes en Work:"
                               ELSE "Tareas urgentes en Urgent:"

\* f'Error: La categoria "{categoria_nombre}" no existe.'
MsgNoExisteLa(categoria_nombre) ==
  IF categoria_nombre = "Work" THEN "Error: La categoria \"Work\" no existe."
                               ELSE "Error: La categoria \"Urgent\" no existe."
\* no message: list.remove raised, and no caller catches it
ValueError == "ValueError: list.remove(x): x not in list"

\* the messages of the calls that succeed in creating something
Creada == {MsgCategoriaAgregada, MsgSubcategoriaAgregada, MsgTareaAgregada,
           MsgTareaEliminada, MsgTareaModificada, MsgUrgenteAgregada}

\* an uncaught ValueError ends the program: nothing is called after it
Vivo == resultado # ValueError

\* no round is in progress: calls are made freely
RondaVacia ==
  [fase |-> "libre", tarea |-> None, antes |-> <<>>, deshechas |-> 0,
   rehechas |-> 0, listas |-> <<>>, historial |-> <<>>]

\* no call of encontrarCategoria is being observed
SinBuscar == [id |-> None, nombre |-> NombreNone, categoria |-> None]

\* the id counters: self.idCategoria += 1 and self.idTarea += 1
\* SiguienteIdCategoria as a mutation: the counter is not advanced
SiguienteIdCategoriaIgual(id) == id

SiguienteIdCategoria(id) == id + 1

\* SiguienteIdTarea as a mutation: the counter is not advanced
SiguienteIdTareaIgual(id) == id

SiguienteIdTarea(id) == id + 1

Init ==
  /\ categorias = <<>>
  /\ cats = <<>>
  /\ objs = <<>>
  /\ idCategoria = 1
  /\ idTarea = 1
  /\ historial_acciones = <<>>
  /\ historial_deshacer = <<>>
  /\ resultado = ""
  /\ racha = RachaVacia
  /\ nRegistros = 0
  /\ nLlamadas = 0
  /\ salida = <<>>
  /\ encolados = <<>>
  /\ procesados = <<>>
  /\ hallada = SinBuscar
  /\ ronda = RondaVacia

(* ------------------------------ categories ---------------------------- *)
agregarCategoria(nombre) ==
  /\ Vivo
  /\ LET categoria == encontrarCategoria(None, nombre)
     IN  IF categoria # None
         THEN /\ resultado' = MsgYaExiste
              /\ UNCHANGED manejador
         ELSE /\ nLlamadas < MaxLlamadas
              /\ cats' = Append(cats, Categoria(idCategoria, nombre))
              /\ categorias' = Append(categorias, Len(cats) + 1)
              /\ idCategoria' = SiguienteIdCategoria(idCategoria)
              /\ resultado' = MsgCategoriaAgregada
              /\ UNCHANGED <<objs, idTarea, historial_acciones,
                             historial_deshacer>>
  /\ racha' = RachaVacia
  /\ UNCHANGED nRegistros
  /\ nLlamadas' = nLlamadas + (IF resultado' \in Creada THEN 1 ELSE 0)
  /\ salida' = <<>>
  /\ encolados' = IF resultado' \in Creada THEN Append(encolados, <<>>)
                                           ELSE encolados
  /\ procesados' = IF resultado' \in Creada THEN Append(procesados, <<>>)
                                            ELSE procesados

\* agregarSubcategoria as a mutation: the id is taken before the parent is
\* looked up, and is lost when the parent does not exist
agregarSubcategoriaConsumeId(nombre, nombreCategoria) ==
  /\ Vivo
  /\ LET categoria == encontrarCategoria(None, nombreCategoria)
     IN  IF categoria # None
         THEN /\ nLlamadas < MaxLlamadas
              /\ cats' = Append(
                   [cats EXCEPT ![categoria].subcategorias =
                                   Append(@, Len(cats) + 1)],
                   Categoria(idCategoria, nombre))
              /\ idCategoria' = SiguienteIdCategoria(idCategoria)
              /\ resultado' = MsgSubcategoriaAgregada
              /\ UNCHANGED <<categorias, objs, idTarea, historial_acciones,
                             historial_deshacer>>
         ELSE /\ resultado' = MsgCategoriaNoExiste
              /\ idCategoria' = SiguienteIdCategoria(idCategoria)
              /\ UNCHANGED <<categorias, cats, objs, idTarea,
                             historial_acciones, historial_deshacer>>
  /\ racha' = RachaVacia
  /\ UNCHANGED nRegistros
  /\ nLlamadas' = nLlamadas + (IF resultado' \in Creada THEN 1 ELSE 0)
  /\ salida' = <<>>
  /\ encolados' = IF resultado' \in Creada THEN Append(encolados, <<>>)
                                           ELSE encolados
  /\ procesados' = IF resultado' \in Creada THEN Append(procesados, <<>>)
                                            ELSE procesados

agregarSubcategoria(nombre, nombreCategoria) ==
  /\ Vivo
  /\ LET categoria == encontrarCategoria(None, nombreCategoria)
     IN  IF categoria # None
         THEN /\ nLlamadas < MaxLlamadas
              /\ cats' = Append(
                   [cats EXCEPT ![categoria].subcategorias =
                                   Append(@, Len(cats) + 1)],
                   Categoria(idCategoria, nombre))
              /\ idCategoria' = SiguienteIdCategoria(idCategoria)
              /\ resultado' = MsgSubcategoriaAgregada
              /\ UNCHANGED <<categorias, objs, idTarea, historial_acciones,
                             historial_deshacer>>
         ELSE /\ resultado' = MsgCategoriaNoExiste
              /\ UNCHANGED manejador
  /\ racha' = RachaVacia
  /\ UNCHANGED nRegistros
  /\ nLlamadas' = nLlamadas + (IF resultado' \in Creada THEN 1 ELSE 0)
  /\ salida' = <<>>
  /\ encolados' = IF resultado' \in Creada THEN Append(encolados, <<>>)
                                           ELSE encolados
  /\ procesados' = IF resultado' \in Creada THEN Append(procesados, <<>>)
                                            ELSE procesados

(* -------------------------------- tasks ------------------------------- *)
agregarTarea(datos, categoria_nombre) ==
  /\ Vivo
  /\ LET categoria == encontrarCategoria(None, categoria_nombre)
         tarea == Len(objs) + 1
     IN  IF categoria # None
         THEN /\ nLlamadas < MaxLlamadas
              /\ objs' = Append(objs, Tareas(idTarea, datos.titulo,
                                  datos.descripcion, datos.prioridad,
                                  datos.fecha_vencimiento))
              /\ cats' = [cats EXCEPT ![categoria].tareas = Append(@, tarea)]
              /\ idTarea' = SiguienteIdTarea(idTarea)
              /\ historial_acciones' =
                   put(historial_acciones, Registro("agregar", tarea, categoria))
              /\ resultado' = MsgTareaAgregada
              /\ racha' = [ops |-> <<"agregar">>, tarea |-> tarea,
                           categoria |-> categoria, pre |-> Foto(cats, objs),
                           post |-> Foto(cats', objs')]
              /\ nRegistros' = nRegistros + 1
              /\ UNCHANGED <<categorias, idCategoria, historial_deshacer>>
         ELSE /\ resultado' = MsgCategoriaNoExiste
              /\ racha' = RachaVacia
              /\ UNCHANGED <<manejador, nRegistros>>
  /\ nLlamadas' = nLlamadas + (IF resultado' \in Creada THEN 1 ELSE 0)
  /\ salida' = <<>>
  /\ UNCHANGED <<encolados, procesados>>

eliminarTarea(idT, categoria_nombre) ==
  /\ Vivo
  /\ LET categoria == encontrarCategoria(None, categoria_nombre)
     IN  IF categoria # None
         THEN LET tarea == BuscarTarea(cats[categoria].tareas, idT)
              IN  IF tarea # None
                  THEN /\ nLlamadas < MaxLlamadas
                       /\ cats' = [cats EXCEPT ![categoria].tareas =
                                                  remove(@, tarea)]
                       /\ historial_acciones' =
                            put(historial_acciones,
                                Registro("eliminar", tarea, categoria))
                       /\ resultado' = MsgTareaEliminada
                       /\ racha' = [ops |-> <<"eliminar">>, tarea |-> tarea,
                                    categoria |-> categoria,
                                    pre |-> Foto(cats, objs),
                                    post |-> Foto(cats', objs)]
                       /\ nRegistros' = nRegistros + 1
                       /\ UNCHANGED <<categorias, objs, idCategoria, idTarea,
                                      historial_deshacer>>
                  ELSE /\ resultado' = MsgTareaNoExiste
                       /\ racha' = RachaVacia
                       /\ UNCHANGED <<manejador, nRegistros>>
         ELSE /\ resultado' = MsgCategoriaNoExiste
              /\ racha' = RachaVacia
              /\ UNCHANGED <<manejador, nRegistros>>
  /\ nLlamadas' = nLlamadas + (IF resultado' \in Creada THEN 1 ELSE 0)
  /\ salida' = <<>>
  /\ UNCHANGED <<encolados, procesados>>

\* the four assignments that overwrite a task's fields with those of desde
Sobrescribir(tarea, desde) ==
  [objs EXCEPT ![tarea].titulo = desde.titulo,
               ![tarea].descripcion = desde.descripcion,
               ![tarea].prioridad = desde.prioridad,
               ![tarea].fecha_vencimiento = desde.fecha_vencimiento]

\* modificarTarea as a mutation: the task is looked up among all the tasks
modificarTareaEnTodas(idT, nuevos, categoria_nombre) ==
  /\ Vivo
  /\ LET categoria == encontrarCategoria(None, categoria_nombre)
     IN  IF categoria # None
         THEN LET tarea == BuscarTareaEnTodas(cats[categoria].tareas, idT)
              IN  IF tarea # None
                  THEN LET tarea_anterior ==
                             Tareas(objs[tarea].id, objs[tarea].titulo,
                                    objs[tarea].descripcion,
                                    objs[tarea].prioridad,
                                    objs[tarea].fecha_vencimiento)
                       IN  /\ nLlamadas < MaxLlamadas
                           /\ objs' = Sobrescribir(tarea, nuevos)
                           /\ historial_acciones' =
                                put(historial_acciones,
                                    RegistroModificar(tarea_anterior, tarea,
                                                      categoria))
                           /\ resultado' = MsgTareaModificada
                           /\ racha' = [ops |-> <<"modificar">>,
                                        tarea |-> tarea,
                                        categoria |-> categoria,
                                        pre |-> Foto(cats, objs),
                                        post |-> Foto(cats, objs')]
                           /\ nRegistros' = nRegistros + 1
                           /\ UNCHANGED <<categorias, cats, idCategoria,
                                          idTarea, historial_deshacer>>
                  ELSE /\ resultado' = MsgTareaNoExiste
                       /\ racha' = RachaVacia
                       /\ UNCHANGED <<manejador, nRegistros>>
         ELSE /\ resultado' = MsgCategoriaNoExiste
              /\ racha' = RachaVacia
              /\ UNCHANGED <<manejador, nRegistros>>
  /\ nLlamadas' = nLlamadas + (IF resultado' \in Creada THEN 1 ELSE 0)
  /\ salida' = <<>>
  /\ UNCHANGED <<encolados, procesados>>

modificarTarea(idT, nuevos, categoria_nombre) ==
  /\ Vivo
  /\ LET categoria == encontrarCategoria(None, categoria_nombre)
     IN  IF categoria # None
         THEN LET tarea == BuscarTarea(cats[categoria].tareas, idT)
              IN  IF tarea # None
                  THEN LET tarea_anterior ==
                             Tareas(objs[tarea].id, objs[tarea].titulo,
                                    objs[tarea].descripcion,
                                    objs[tarea].prioridad,
                                    objs[tarea].fecha_vencimiento)
                       IN  /\ nLlamadas < MaxLlamadas
                           /\ objs' = Sobrescribir(tarea, nuevos)
                           /\ historial_acciones' =
                                put(historial_acciones,
                                    RegistroModificar(tarea_anterior, tarea,
                                                      categoria))
                           /\ resultado' = MsgTareaModificada
                           /\ racha' = [ops |-> <<"modificar">>,
                                        tarea |-> tarea,
                                        categoria |-> categoria,
                                        pre |-> Foto(cats, objs),
                                        post |-> Foto(cats, objs')]
                           /\ nRegistros' = nRegistros + 1
                           /\ UNCHANGED <<categorias, cats, idCategoria,
                                          idTarea, historial_deshacer>>
                  ELSE /\ resultado' = MsgTareaNoExiste
                       /\ racha' = RachaVacia
                       /\ UNCHANGED <<manejador, nRegistros>>
         ELSE /\ resultado' = MsgCategoriaNoExiste
              /\ racha' = RachaVacia
              /\ UNCHANGED <<manejador, nRegistros>>
  /\ nLlamadas' = nLlamadas + (IF resultado' \in Creada THEN 1 ELSE 0)
  /\ salida' = <<>>
  /\ UNCHANGED <<encolados, procesados>>

(* ---------------------------- undo and redo --------------------------- *)
\* categoria.tareas.remove(tarea) raises ValueError when tarea is not there
Lanza(accion) ==
  ~Contiene(cats[accion.categoria].tareas, accion.tarea)

\* DeshacerAgregar as a mutation: the remove is missing
DeshacerAgregarNada(accion) == cats

\* DeshacerAgregar as a mutation: tareas.pop(0) in place of remove(tarea)
DeshacerAgregarPrimero(accion) ==
  [cats EXCEPT ![accion.categoria].tareas = Tail(@)]

\* deshacer, accion == 'agregar': categoria.tareas.remove(tarea)
DeshacerAgregar(accion) ==
  [cats EXCEPT ![accion.categoria].tareas = remove(@, accion.tarea)]

\* DeshacerEliminar as a mutation: the task goes to categoria.tareasUrgentes
DeshacerEliminarEnUrgentes(accion) ==
  [cats EXCEPT ![accion.categoria].tareasUrgentes = Append(@, accion.tarea)]

\* DeshacerEliminar as a mutation: tareas.insert(0, tarea) in place of append
DeshacerEliminarAlInicio(accion) ==
  [cats EXCEPT ![accion.categoria].tareas = <<accion.tarea>> \o @]

\* deshacer, accion == 'eliminar': categoria.tareas.append(tarea)
DeshacerEliminar(accion) ==
  [cats EXCEPT ![accion.categoria].tareas = Append(@, accion.tarea)]

\* DeshacerModificar as a mutation: the assignment of descripcion is missing
DeshacerModificarSinDescripcion(accion) ==
  [objs EXCEPT ![accion.tarea].titulo = accion.tarea_anterior.titulo,
               ![accion.tarea].prioridad = accion.tarea_anterior.prioridad,
               ![accion.tarea].fecha_vencimiento =
                  accion.tarea_anterior.fecha_vencimiento]

\* deshacer, accion == 'modificar': the fields of tarea_anterior come back
DeshacerModificar(accion) == Sobrescribir(accion.tarea, accion.tarea_anterior)

\* RehacerAgregar as a mutation: tareas.insert(0, tarea) in place of append
RehacerAgregarAlInicio(accion) ==
  [cats EXCEPT ![accion.categoria].tareas = <<accion.tarea>> \o @]

\* rehacer, accion == 'agregar': categoria.tareas.append(tarea)
RehacerAgregar(accion) ==
  [cats EXCEPT ![accion.categoria].tareas = Append(@, accion.tarea)]

\* RehacerEliminar as a mutation: the remove is missing
RehacerEliminarNada(accion) == cats

\* rehacer, accion == 'eliminar': categoria.tareas.remove(tarea)
RehacerEliminar(accion) ==
  [cats EXCEPT ![accion.categoria].tareas = remove(@, accion.tarea)]

\* rehacer, accion == 'modificar': the same four assignments as in deshacer,
\* again from tarea_anterior
RehacerModificar(accion) == Sobrescribir(accion.tarea, accion.tarea_anterior)

\* the run after one more step: paso follows a run of length antes, or the
\* run is over
Seguir(paso, antes) ==
  IF Len(racha.ops) = antes
  THEN [racha EXCEPT !.ops = Append(@, paso)]
  ELSE RachaVacia

deshacer ==
  /\ Vivo
  /\ UNCHANGED <<categorias, idCategoria, idTarea, nRegistros, nLlamadas>>
  /\ IF historial_acciones # <<>>
     THEN LET ultima_accion == Cima(historial_acciones)
              accion == ultima_accion.accion
          IN  /\ historial_acciones' = Resto(historial_acciones)
              /\ IF accion \in {"agregar"} /\ Lanza(ultima_accion)
                 THEN /\ resultado' = ValueError
                      /\ racha' = RachaVacia
                      /\ UNCHANGED <<cats, objs, historial_deshacer>>
                 ELSE /\ cats' = CASE accion = "agregar" ->
                                        DeshacerAgregar(ultima_accion)
                                   [] accion = "eliminar" ->
                                        DeshacerEliminar(ultima_accion)
                                   [] OTHER -> cats
                      /\ objs' = IF accion = "modificar"
                                 THEN DeshacerModificar(ultima_accion)
                                 ELSE objs
                      /\ historial_deshacer' =
                           put(historial_deshacer, ultima_accion)
                      /\ resultado' = MsgDeshecha
                      /\ racha' = Seguir("deshacer", 1)
     ELSE /\ resultado' = MsgNadaQueDeshacer
          /\ racha' = RachaVacia
          /\ UNCHANGED <<cats, objs, historial_acciones, historial_deshacer>>
  /\ salida' = <<>>
  /\ UNCHANGED <<encolados, procesados>>

rehacer ==
  /\ Vivo
  /\ UNCHANGED <<categorias, idCategoria, idTarea, nRegistros, nLlamadas>>
  /\ IF historial_deshacer # <<>>
     THEN LET accion_deshacer == Cima(historial_deshacer)
              accion == accion_deshacer.accion
          IN  /\ historial_deshacer' = Resto(historial_deshacer)
              /\ IF accion \in {"eliminar"} /\ Lanza(accion_deshacer)
                 THEN /\ resultado' = ValueError
                      /\ racha' = RachaVacia
                      /\ UNCHANGED <<cats, objs, historial_acciones>>
                 ELSE /\ cats' = CASE accion = "agregar" ->
                                        RehacerAgregar(accion_deshacer)
                                   [] accion = "eliminar" ->
                                        RehacerEliminar(accion_deshacer)
                                   [] OTHER -> cats
                      /\ objs' = IF accion = "modificar"
                                 THEN RehacerModificar(accion_deshacer)
                                 ELSE objs
                      /\ historial_acciones' =
                           put(historial_acciones, accion_deshacer)
                      /\ resultado' = MsgRehecha
                      /\ racha' = Seguir("rehacer", 2)
     ELSE /\ resultado' = MsgNadaQueRehacer
          /\ racha' = RachaVacia
          /\ UNCHANGED <<cats, objs, historial_acciones, historial_deshacer>>
  /\ salida' = <<>>
  /\ UNCHANGED <<encolados, procesados>>

(* ----------------------------- urgent tasks --------------------------- *)
agregarTareaUrgente(datos, categoria_nombre) ==
  /\ Vivo
  /\ LET categoria == encontrarCategoria(None, categoria_nombre)
         tarea == Len(objs) + 1
     IN  IF categoria # None
         THEN /\ nLlamadas < MaxLlamadas
              /\ objs' = Append(objs, Tareas(idTarea, datos.titulo,
                                  datos.descripcion, datos.prioridad,
                                  datos.fecha_vencimiento))
              /\ cats' = [cats EXCEPT ![categoria].tareasUrgentes =
                                         Append(@, tarea)]
              /\ idTarea' = SiguienteIdTarea(idTarea)
              /\ resultado' = MsgUrgenteAgregada
              /\ salida' = <<str(objs'[tarea])>>
              /\ encolados' = [encolados EXCEPT ![categoria] =
                                                  Append(@, tarea)]
              /\ UNCHANGED <<categorias, idCategoria, historial_acciones,
                             historial_deshacer>>
         ELSE /\ resultado' = MsgCategoriaNoExiste
              /\ salida' = <<>>
              /\ UNCHANGED <<manejador, encolados>>
  /\ UNCHANGED procesados
  /\ racha' = RachaVacia
  /\ UNCHANGED nRegistros
  /\ nLlamadas' = nLlamadas + (IF resultado' \in Creada THEN 1 ELSE 0)

procesarTareaUrgente(categoria_nombre) ==
  /\ Vivo
  /\ LET categoria == encontrarCategoria(None, categoria_nombre)
     IN  IF categoria # None
         THEN IF cats[categoria].tareasUrgentes # <<>>
              THEN LET sale == get(cats[categoria].tareasUrgentes)
                   IN  /\ cats' = [cats EXCEPT ![categoria].tareasUrgentes =
                                                   sale.resto]
                       /\ resultado' = MsgProcesando
                       /\ salida' = <<str(objs[sale.tarea])>>
                       /\ procesados' = [procesados EXCEPT ![categoria] =
                                                      Append(@, sale.tarea)]
                       /\ UNCHANGED <<categorias, objs, idCategoria, idTarea,
                                      historial_acciones, historial_deshacer>>
              ELSE /\ resultado' = MsgSinUrgentes
                   /\ salida' = <<>>
                   /\ UNCHANGED <<manejador, procesados>>
         ELSE /\ resultado' = MsgCategoriaNoExiste
              /\ salida' = <<>>
              /\ UNCHANGED <<manejador, procesados>>
  /\ UNCHANGED encolados
  /\ racha' = RachaVacia
  /\ UNCHANGED nRegistros
  /\ UNCHANGED nLlamadas

(* ------------------------------- listing ------------------------------ *)
\* Menor as a mutation: a task also goes before a task with the same key, so
\* that tasks with equal keys come out in the reverse of their stored order
MenorOIgual(a, b) ==
  \/ objs[a].prioridad < objs[b].prioridad
  \/ /\ objs[a].prioridad = objs[b].prioridad
     /\ objs[a].fecha_vencimiento <= objs[b].fecha_vencimiento

\* the key lambda t: (t.prioridad, t.fecha_vencimiento), compared as tuples
Menor(a, b) ==
  \/ objs[a].prioridad < objs[b].prioridad
  \/ /\ objs[a].prioridad = objs[b].prioridad
     /\ objs[a].fecha_vencimiento < objs[b].fecha_vencimiento

RECURSIVE Insertar(_, _)
\* tarea goes behind every task whose key is not greater than its own
Insertar(ordenadas, tarea) ==
  IF ordenadas = <<>>
  THEN <<tarea>>
  ELSE IF Menor(tarea, Head(ordenadas))
       THEN <<tarea>> \o ordenadas
       ELSE <<Head(ordenadas)>> \o Insertar(Tail(ordenadas), tarea)

RECURSIVE sorted(_)
\* sorted as a mutation: the list is returned in its stored order
sortedSinOrdenar(lista) == lista

\* sorted(categoria.tareas, key=...): a new list, ascending, stable
sorted(lista) ==
  IF lista = <<>>
  THEN <<>>
  ELSE Insertar(sorted(SubSeq(lista, 1, Len(lista) - 1)), lista[Len(lista)])

mostrarTareasOrdenadas(categoria_nombre) ==
  /\ Vivo
  /\ LET categoria == encontrarCategoria(None, categoria_nombre)
     IN  IF categoria # None
         THEN IF cats[categoria].tareas # <<>>
              THEN LET tareas_ordenadas == sorted(cats[categoria].tareas)
                   IN  /\ resultado' = MsgListado
                       /\ salida' = [i \in 1..Len(tareas_ordenadas) |->
                                       str(objs[tareas_ordenadas[i]])]
              ELSE /\ resultado' = MsgSinTareas
                   /\ salida' = <<>>
         ELSE /\ resultado' = MsgCategoriaNoExiste
              /\ salida' = <<>>
  /\ racha' = RachaVacia
  /\ UNCHANGED <<manejador, nRegistros, nLlamadas, encolados, procesados>>

(* --------------------------- the caller's loop ------------------------ *)
Next ==
  \/ \E nombre \in Nombres : agregarCategoria(nombre) /\ UNCHANGED <<hallada, ronda>>
  \/ \E nombre \in Nombres, padre \in Nombres :
       agregarSubcategoria(nombre, padre) /\ UNCHANGED <<hallada, ronda>>
  \/ \E datos \in DatosTarea, nombre \in Nombres :
       agregarTarea(datos, nombre) /\ UNCHANGED <<hallada, ronda>>
  \/ \E idT \in 1..idTarea, nombre \in Nombres :
       eliminarTarea(idT, nombre) /\ UNCHANGED <<hallada, ronda>>
  \/ \E idT \in 1..idTarea, datos \in DatosTarea, nombre \in Nombres :
       modificarTarea(idT, datos, nombre) /\ UNCHANGED <<hallada, ronda>>
  \/ deshacer /\ UNCHANGED <<hallada, ronda>>
  \/ rehacer /\ UNCHANGED <<hallada, ronda>>
  \/ \E datos \in DatosTarea, nombre \in Nombres :
       agregarTareaUrgente(datos, nombre) /\ UNCHANGED <<hallada, ronda>>
  \/ \E nombre \in Nombres :
       procesarTareaUrgente(nombre) /\ UNCHANGED <<hallada, ronda>>
  \/ \E nombre \in Nombres :
       mostrarTareasOrdenadas(nombre) /\ UNCHANGED <<hallada, ronda>>

Spec == Init /\ [][Next]_vars

(* ------------------- the urgent tasks, on their own ------------------- *)
\* the line mostrarTareasUrgentes prints for a task
lineaUrgente(tarea) ==
  <<tarea.id, tarea.titulo, tarea.descripcion, tarea.prioridad,
    strftime(tarea.fecha_vencimiento)>>

\* listaDeCola as a mutation: the newest task comes first
listaDeColaAlReves(cola) == [i \in 1..Len(cola) |-> cola[Len(cola) + 1 - i]]

\* list(categoria.tareasUrgentes.queue): the tasks of the queue, oldest first
listaDeCola(cola) == [i \in 1..Len(cola) |-> cola[i]]

mostrarTareasUrgentes(categoria_nombre) ==
  /\ Vivo
  /\ LET categoria == encontrarCategoria(None, categoria_nombre)
     IN  IF categoria # None
         THEN IF cats[categoria].tareasUrgentes # <<>>
              THEN LET lista == listaDeCola(cats[categoria].tareasUrgentes)
                   IN  /\ resultado' = MsgUrgentesEn(categoria_nombre)
                       /\ salida' = [i \in 1..Len(lista) |->
                                       lineaUrgente(objs[lista[i]])]
              ELSE /\ resultado' = MsgSinUrgentes
                   /\ salida' = <<>>
         ELSE /\ resultado' = MsgNoExisteLa(categoria_nombre)
              /\ salida' = <<>>
  /\ racha' = RachaVacia
  /\ UNCHANGED <<manejador, nRegistros, nLlamadas, encolados, procesados>>

\* categories, subcategories and tasks are created, urgent tasks are put
\* into the queues, shown and taken out
NextUrgentes ==
  \/ \E nombre \in Nombres : agregarCategoria(nombre) /\ UNCHANGED <<hallada, ronda>>
  \/ \E nombre \in Nombres, padre \in Nombres :
       agregarSubcategoria(nombre, padre) /\ UNCHANGED <<hallada, ronda>>
  \/ \E datos \in DatosTarea, nombre \in Nombres :
       agregarTarea(datos, nombre) /\ UNCHANGED <<hallada, ronda>>
  \/ \E datos \in DatosTarea, nombre \in Nombres :
       agregarTareaUrgente(datos, nombre) /\ UNCHANGED <<hallada, ronda>>
  \/ \E nombre \in Nombres :
       mostrarTareasUrgentes(nombre) /\ UNCHANGED <<hallada, ronda>>
  \/ \E nombre \in Nombres :
       procesarTareaUrgente(nombre) /\ UNCHANGED <<hallada, ronda>>

SpecUrgentes == Init /\ [][NextUrgentes]_vars

(* --------------- modifications of one task, then undos ---------------- *)
\* titulo, descripcion, prioridad and fecha_vencimiento of a task
CamposDe(tarea) ==
  <<objs[tarea].titulo, objs[tarea].descripcion, objs[tarea].prioridad,
    objs[tarea].fecha_vencimiento>>

\* Calls are made freely (categories and tasks are created, tasks are
\* modified, modifications are undone); then a round begins: modificarTarea
\* succeeds n times on one task, each time after its fields were noted, and
\* then deshacer is called up to n times, nothing else in between.
NextModificar ==
  \/ \E nombre \in Nombres :
       /\ ronda.fase = "libre"
       /\ agregarCategoria(nombre)
       /\ UNCHANGED <<hallada, ronda>>
  \/ \E datos \in DatosTarea, nombre \in Nombres :
       /\ ronda.fase = "libre"
       /\ agregarTarea(datos, nombre)
       /\ UNCHANGED <<hallada, ronda>>
  \/ \E idT \in 1..idTarea, datos \in DatosTarea, nombre \in Nombres :
       /\ ronda.fase = "libre"
       /\ modificarTarea(idT, datos, nombre)
       /\ UNCHANGED <<hallada, ronda>>
  \/ /\ ronda.fase = "libre"
     /\ deshacer
     /\ UNCHANGED <<hallada, ronda>>
  \/ \E idT \in 1..idTarea, datos \in DatosTarea, nombre \in Nombres :
       /\ ronda.fase \in {"libre", "modificar"}
       /\ modificarTarea(idT, datos, nombre)
       /\ resultado' = MsgTareaModificada
       /\ LET tarea == Cima(historial_acciones').tarea
          IN  /\ ronda.fase = "modificar" => tarea = ronda.tarea
              /\ ronda' = [ronda EXCEPT !.fase = "modificar",
                                        !.tarea = tarea,
                                        !.antes = Append(@, CamposDe(tarea))]
       /\ UNCHANGED hallada
  \/ /\ ronda.fase \in {"modificar", "deshacer"}
     /\ ronda.deshechas < Len(ronda.antes)
     /\ deshacer
     /\ ronda' = [ronda EXCEPT !.fase = "deshacer", !.deshechas = @ + 1]
     /\ UNCHANGED hallada

SpecModificar == Init /\ [][NextModificar]_vars

(* ------------------ additions and removals, undone and redone --------- *)
\* Categories are created and tasks are added and removed, freely; then a
\* round begins with historial_deshacer empty: deshacer succeeds k times,
\* then rehacer is called k times, nothing else in between; after the round
\* calls are free again.

\* no round is in progress, or the round is complete
RondaLibre ==
  \/ ronda.fase = "libre"
  \/ ronda.fase = "rehacer" /\ ronda.rehechas = ronda.deshechas

NextRehacer ==
  \/ \E nombre \in Nombres :
       /\ RondaLibre
       /\ agregarCategoria(nombre)
       /\ ronda' = RondaVacia
       /\ UNCHANGED hallada
  \/ \E nombre \in Nombres, padre \in Nombres :
       /\ RondaLibre
       /\ agregarSubcategoria(nombre, padre)
       /\ ronda' = RondaVacia
       /\ UNCHANGED hallada
  \/ \E datos \in DatosTarea, nombre \in Nombres :
       /\ RondaLibre
       /\ agregarTarea(datos, nombre)
       /\ ronda' = RondaVacia
       /\ UNCHANGED hallada
  \/ \E idT \in 1..idTarea, nombre \in Nombres :
       /\ RondaLibre
       /\ eliminarTarea(idT, nombre)
       /\ ronda' = RondaVacia
       /\ UNCHANGED hallada
  \/ /\ RondaLibre \/ ronda.fase = "deshacer"
     /\ historial_acciones # <<>>
     /\ deshacer
     /\ ronda' = IF RondaLibre
                 THEN [RondaVacia EXCEPT
                         !.fase = "deshacer",
                         !.deshechas = 1,
                         !.listas = [c \in 1..Len(cats) |-> cats[c].tareas],
                         !.historial = historial_acciones]
                 ELSE [ronda EXCEPT !.deshechas = @ + 1]
     /\ UNCHANGED hallada
  \/ /\ ronda.fase \in {"deshacer", "rehacer"}
     /\ ronda.rehechas < ronda.deshechas
     /\ rehacer
     /\ ronda' = [ronda EXCEPT !.fase = "rehacer", !.rehechas = @ + 1]
     /\ UNCHANGED hallada

SpecRehacer == Init /\ [][NextRehacer]_vars

(* ------------------- listing in order, on its own --------------------- *)
\* the bijections of 1..n: the orders in which n tasks can be stored
Permutaciones(n) ==
  {p \in [1..n -> 1..n] : \A i, j \in 1..n : p[i] = p[j] => i = j}

\* the title typed for the t-th task of Work: every task has a title of its
\* own, so that its line in a listing is no other task's line
TituloDe(t) == "Report " \o ToString(t)

\* The states in which the lists are listed: category Work with subcategory
\* Urgent; n tasks with titles of their own and any priorities and due dates
\* were added to Work, one more to Urgent, one urgent task to Work; then the
\* tasks of Work were
\* removed and restored by deshacer, one after the other, which leaves them
\* stored in any order. The last call was deshacer (agregarTareaUrgente when
\* n = 0).
InitOrden ==
  \E n \in 0..MaxLista :
    \E campos \in [1..n -> Prioridades \X Fechas], orden \in Permutaciones(n) :
      LET tareasCreadas ==
            [t \in 1..(n + 2) |->
               IF t <= n
               THEN Tareas(t, TituloDe(t), "informe", campos[t][1],
                           campos[t][2])
               ELSE Tareas(t, "Email", "correo", 3, 20250101)]
          \* the categories, with lista as the task list of Work
          con(lista) ==
            <<[Categoria(1, "Work") EXCEPT
                 !.subcategorias = <<2>>,
                 !.tareas = lista,
                 !.tareasUrgentes = <<n + 2>>],
              [Categoria(2, "Urgent") EXCEPT !.tareas = <<n + 1>>]>>
          \* the tasks of Work restored before the last one was removed
          restauradas == SubSeq(orden, 1, n - 1)
      IN  /\ categorias = <<1>>
          /\ cats = con(orden)
          /\ objs = tareasCreadas
          /\ idCategoria = 3
          /\ idTarea = n + 3
          /\ historial_acciones =
               [t \in 1..(n + 1) |->
                  Registro("agregar", t, IF t <= n THEN 1 ELSE 2)]
          /\ historial_deshacer =
               [i \in 1..n |-> Registro("eliminar", orden[i], 1)]
          /\ resultado = IF n = 0 THEN MsgUrgenteAgregada ELSE MsgDeshecha
          /\ racha = IF n = 0
                     THEN RachaVacia
                     ELSE [ops |-> <<"eliminar", "deshacer">>,
                           tarea |-> orden[n],
                           categoria |-> 1,
                           pre |-> Foto(con(<<orden[n]>> \o restauradas),
                                        tareasCreadas),
                           post |-> Foto(con(restauradas), tareasCreadas)]
          /\ nRegistros = 2 * n + 1
          /\ nLlamadas = 2 * n + 4
          /\ salida = IF n = 0 THEN <<str(tareasCreadas[n + 2])>> ELSE <<>>
          /\ encolados = <<<<n + 2>>, <<>>>>
          /\ procesados = <<<<>>, <<>>>>
          /\ hallada = SinBuscar
          /\ ronda = RondaVacia

NextOrden ==
  \E nombre \in Nombres : mostrarTareasOrdenadas(nombre) /\ UNCHANGED <<hallada, ronda>>

SpecOrden == InitOrden /\ [][NextOrden]_vars

(* ------------------- looking up a category, on its own ---------------- *)
\* a call of encontrarCategoria(id, nombre), and what it returns
Buscar(id, nombre) ==
  /\ Vivo
  /\ hallada' = [id |-> id, nombre |-> nombre,
                 categoria |-> encontrarCategoria(id, nombre)]
  /\ UNCHANGED <<manejador, resultado, racha, nRegistros, nLlamadas, salida,
                 encolados, procesados, ronda>>

\* the forest grows by agregarCategoria and agregarSubcategoria, and
\* encontrarCategoria is called with any id (None included) and any name
\* (None included); a result is observed until the forest changes
NextBuscar ==
  \/ \E nombre \in Nombres : agregarCategoria(nombre)
       /\ hallada' = SinBuscar /\ UNCHANGED ronda
  \/ \E nombre \in Nombres, padre \in Nombres :
       agregarSubcategoria(nombre, padre)
         /\ hallada' = SinBuscar /\ UNCHANGED ronda
  \/ \E id \in None..(MaxLlamadas + 1), nombre \in Nombres \cup {NombreNone} :
       Buscar(id, nombre)

SpecBuscar == Init /\ [][NextBuscar]_vars

(* ======================================================================= *)
(* Claims.  racha records a run "op ; deshacer ; rehacer" of consecutive   *)
(* successful calls, with the task lists and task fields before op (pre)   *)
(* and right after op (post).                                              *)
(* ======================================================================= *)
Listas == [c \in 1..Len(cats) |-> cats[c].tareas]

\* lista with the element at index i moved to the end
MovidaAlFinal(lista, i) ==
  [j \in 1..Len(lista) |->
     IF j < i THEN lista[j]
     ELSE IF j < Len(lista) THEN lista[j + 1] ELSE lista[i]]

Campos(t) == <<t.titulo, t.descripcion, t.prioridad, t.fecha_vencimiento>>

\* C1: a successful agregarTarea immediately followed by deshacer leaves the
\* task list of every category (the one that got the task and all the others)
\* exactly as it was before the agregarTarea: same tasks, same order.
C1_AgregarDeshacerRestaura ==
  racha.ops = <<"agregar", "deshacer">> => Listas = racha.pre.tareas

\* C1 witness: agregarTarea into a category that already held a task, undone
C1_Testigo ==
  /\ racha.ops = <<"agregar", "deshacer">>
  /\ racha.pre.tareas[racha.categoria] # <<>>

\* C2: a successful eliminarTarea of task t in category c immediately followed
\* by deshacer leaves c's list equal to the list before the removal with t
\* moved to the end: t is last and the other tasks keep their relative order.
C2_EliminarDeshacerAlFinal ==
  racha.ops = <<"eliminar", "deshacer">> =>
    LET antes == racha.pre.tareas[racha.categoria]
    IN  \E i \in 1..Len(antes) :
          /\ antes[i] = racha.tarea
          /\ cats[racha.categoria].tareas = MovidaAlFinal(antes, i)

\* C2 witness: the removed task was not the last one, so undo moves it
C2_Testigo ==
  /\ racha.ops = <<"eliminar", "deshacer">>
  /\ LET antes == racha.pre.tareas[racha.categoria]
     IN  antes[Len(antes)] # racha.tarea
  /\ cats[racha.categoria].tareas # racha.pre.tareas[racha.categoria]

\* C3: for a successful agregarTarea or eliminarTarea op, the run
\* op ; deshacer ; rehacer leaves every category's task list equal to what it
\* was right after op.
C3_DeshacerRehacerRestaura ==
  (/\ Len(racha.ops) = 3
   /\ racha.ops[1] \in {"agregar", "eliminar"}) => Listas = racha.post.tareas

\* C3 witness: a removal from a list of two tasks, undone and redone
C3_Testigo ==
  /\ racha.ops = <<"eliminar", "deshacer", "rehacer">>
  /\ racha.post.tareas[racha.categoria] # <<>>

\* C4: after a successful modificarTarea on task t followed by deshacer and
\* then rehacer, t's titulo, descripcion, prioridad and fecha_vencimiento are
\* the values that modificarTarea wrote.
C4_RehacerModificar ==
  racha.ops = <<"modificar", "deshacer", "rehacer">> =>
    Campos(objs[racha.tarea]) = Campos(racha.post.objs[racha.tarea])

\* C5: after a successful modificarTarea on task t immediately followed by
\* deshacer, the four fields of t are those before the modification, and t's
\* id and its place in the task lists are unchanged.
C5_ModificarDeshacerRestaura ==
  racha.ops = <<"modificar", "deshacer">> =>
    /\ Campos(objs[racha.tarea]) = Campos(racha.pre.objs[racha.tarea])
    /\ objs[racha.tarea].id = racha.pre.objs[racha.tarea].id
    /\ Listas = racha.pre.tareas

\* C5 witness: the modification had changed all four fields
C5_Testigo ==
  /\ racha.ops = <<"modificar", "deshacer">>
  /\ LET a == racha.pre.objs[racha.tarea]
         d == racha.post.objs[racha.tarea]
     IN  /\ a.titulo # d.titulo
         /\ a.descripcion # d.descripcion
         /\ a.prioridad # d.prioridad
         /\ a.fecha_vencimiento # d.fecha_vencimiento

\* C6: no call to deshacer or rehacer aborts: each one ends with one of its
\* two messages, never with an exception.
C6_SinAbortos == resultado # ValueError

\* C7: no history record is lost or duplicated: the two stacks together hold
\* as many records as there were successful agregarTarea, eliminarTarea and
\* modificarTarea calls.
C7_RegistrosConservados ==
  Len(historial_acciones) + Len(historial_deshacer) = nRegistros

\* C8: a successful agregarTarea, eliminarTarea or modificarTarea pushes
\* exactly one record onto historial_acciones and leaves historial_deshacer
\* as it was, also when it is not empty; a rehacer right after it re-applies
\* the stale top record of historial_deshacer: it completes, the record goes
\* from historial_deshacer onto historial_acciones, the task of an 'agregar'
\* record is at the end of its list again and the task of an 'eliminar'
\* record is out of its list, the other tasks in their order. (The values
\* that a re-applied 'modificar' record writes are the subject of C4.)
C8_AccionYRehacerLaCima ==
  [][ /\ resultado' \in {MsgTareaAgregada, MsgTareaEliminada,
                        MsgTareaModificada} =>
           /\ historial_deshacer' = historial_deshacer
           /\ Len(historial_acciones') = Len(historial_acciones) + 1
           /\ SubSeq(historial_acciones', 1, Len(historial_acciones))
                = historial_acciones
           /\ historial_acciones'[Len(historial_acciones')].accion
                = racha'.ops[1]
      /\ (Len(racha.ops) = 1 /\ historial_deshacer # <<>> /\ rehacer) =>
           LET r == historial_deshacer[Len(historial_deshacer)]
               l == cats[r.categoria].tareas
               m == cats'[r.categoria].tareas
           IN  /\ resultado' = MsgRehecha
               /\ historial_deshacer'
                    = SubSeq(historial_deshacer, 1, Len(historial_deshacer) - 1)
               /\ historial_acciones' = historial_acciones \o <<r>>
               /\ r.accion = "agregar" => m = l \o <<r.tarea>>
               /\ r.accion = "eliminar" =>
                    /\ Contiene(l, r.tarea)
                    /\ m = remove(l, r.tarea)
    ]_vars

\* C9: no two categories of the forest, roots or subcategories, have the same
\* name.
C9_NombresUnicos ==
  \A a, b \in 1..Len(cats) : a # b => cats[a].nombre # cats[b].nombre

\* C10: right after a successful agregarCategoria or agregarSubcategoria,
\* encontrarCategoria by the new category's id and by its name both return
\* the category just created; and encontrarCategoria with an id or a name
\* that no category has returns None.
C10_EncontrarLaNueva ==
  /\ resultado \in {MsgCategoriaAgregada, MsgSubcategoriaAgregada} =>
       /\ encontrarCategoria(cats[Len(cats)].id, NombreNone) = Len(cats)
       /\ encontrarCategoria(None, cats[Len(cats)].nombre) = Len(cats)
  /\ \A nombre \in Nombres :
       (\A c \in 1..Len(cats) : cats[c].nombre # nombre) =>
         encontrarCategoria(None, nombre) = None
  /\ \A id \in 1..(MaxLlamadas + 1) :
       (\A c \in 1..Len(cats) : cats[c].id # id) =>
         encontrarCategoria(id, NombreNone) = None

\* every category's queue of urgent tasks
Urgentes == [c \in 1..Len(cats) |-> cats[c].tareasUrgentes]

\* C11: for each category, the tasks that successive procesarTareaUrgente
\* calls take out are the tasks agregarTareaUrgente put into that category's
\* queue, in the same order, whatever other calls come in between (what was
\* taken out, followed by what is still queued, is what was put in); a call
\* on a category whose queue is empty reports that there are no urgent tasks
\* and changes nothing, a call on a queue that is not empty prints its oldest
\* task.
C11_Fifo ==
  /\ [](\A c \in 1..Len(cats) :
          procesados[c] \o cats[c].tareasUrgentes = encolados[c])
  /\ [][\A nombre \in Nombres :
          procesarTareaUrgente(nombre) =>
            LET c == encontrarCategoria(None, nombre)
            IN  c # None =>
                  IF cats[c].tareasUrgentes = <<>>
                  THEN resultado' = MsgSinUrgentes /\ UNCHANGED manejador
                  ELSE /\ resultado' = MsgProcesando
                       /\ procesados'[c] = Append(procesados[c],
                            encolados[c][Len(procesados[c]) + 1])
                       /\ salida' = <<str(objs[
                            encolados[c][Len(procesados[c]) + 1]])>>
       ]_vars

\* C11 witness: two tasks were taken out of a queue that still holds a third
C11_Testigo ==
  \E c \in 1..Len(cats) :
    Len(procesados[c]) >= 2 /\ cats[c].tareasUrgentes # <<>>

\* C12: deshacer, rehacer, agregarTarea, eliminarTarea and modificarTarea
\* leave every category's queue of urgent tasks as it was; and
\* agregarTareaUrgente and procesarTareaUrgente leave historial_acciones,
\* historial_deshacer and every category's task list as they were.
C12_UrgentesAparte ==
  [][ /\ resultado' \in {MsgTareaAgregada, MsgTareaEliminada,
                        MsgTareaModificada, MsgTareaNoExiste, MsgDeshecha,
                        MsgRehecha, MsgNadaQueDeshacer, MsgNadaQueRehacer,
                        ValueError, MsgCategoriaNoExiste} =>
           Urgentes' = Urgentes
      /\ resultado' \in {MsgUrgenteAgregada, MsgProcesando, MsgSinUrgentes,
                        MsgCategoriaNoExiste} =>
           /\ historial_acciones' = historial_acciones
           /\ historial_deshacer' = historial_deshacer
           /\ Listas' = Listas
    ]_vars

\* C12 witness: a removal was undone while a queue held an urgent task
C12_Testigo ==
  /\ racha.ops = <<"eliminar", "deshacer">>
  /\ \E c \in 1..Len(cats) : cats[c].tareasUrgentes # <<>>

\* the places (category, list or queue, index) where task t is held
Lugares(t) ==
  UNION {{<<c, "tareas", i>> :
            i \in {j \in DOMAIN cats[c].tareas : cats[c].tareas[j] = t}}
         \cup
         {<<c, "tareasUrgentes", i>> :
            i \in {j \in DOMAIN cats[c].tareasUrgentes :
                     cats[c].tareasUrgentes[j] = t}} : c \in 1..Len(cats)}

\* C13: no task is held twice: counting every category's task list and every
\* category's queue of urgent tasks together, each task occurs at most once.
C13_TareaUnaVez ==
  \A t \in 1..Len(objs) : Cardinality(Lugares(t)) <= 1

\* C13 witness: an addition was undone and redone, and the task is held once,
\* while another task waits in a queue of urgent tasks
C13_Testigo ==
  /\ racha.ops = <<"agregar", "deshacer", "rehacer">>
  /\ \E t \in 1..Len(objs) : \E l \in Lugares(t) : l[2] = "tareas"
  /\ \E t \in 1..Len(objs) : \E l \in Lugares(t) : l[2] = "tareasUrgentes"

\* C14: task ids are unique and never used again: idTarea never decreases,
\* whatever the call (eliminarTarea, deshacer, rehacer and
\* procesarTareaUrgente included); every successful agregarTarea or
\* agregarTareaUrgente gives the new task the current value of the one shared
\* counter and advances it by one, so the new id is greater than the id of
\* every task created before, and no call changes the id of a task.
C14_IdsDeTarea ==
  /\ [](\A t, u \in 1..Len(objs) : objs[t].id = objs[u].id => t = u)
  /\ [][ /\ idTarea' >= idTarea
         /\ Len(objs') >= Len(objs)
         /\ \A t \in 1..Len(objs) : objs'[t].id = objs[t].id
         /\ resultado' \in {MsgTareaAgregada, MsgUrgenteAgregada} =>
              /\ Len(objs') = Len(objs) + 1
              /\ objs'[Len(objs')].id = idTarea
              /\ idTarea' = idTarea + 1
              /\ \A t \in 1..Len(objs) : objs[t].id < objs'[Len(objs')].id
         /\ resultado' \notin {MsgTareaAgregada, MsgUrgenteAgregada} =>
              /\ Len(objs') = Len(objs)
              /\ idTarea' = idTarea
     ]_vars

\* C14 witness: an urgent task was created after an ordinary task had been
\* created and removed
C14_Testigo ==
  /\ resultado = MsgUrgenteAgregada
  /\ Len(objs) >= 2
  /\ \E t \in 1..Len(objs) : Lugares(t) = {}

\* C15: agregarCategoria(nombre) reports that the category already exists
\* whenever some category of the forest, root or nested, has that name, and
\* then adds no category and leaves idCategoria as it was; otherwise it
\* appends one new root category that carries the current idCategoria, and
\* advances idCategoria by one.
C15_AgregarCategoria ==
  [][\A nombre \in Nombres :
       agregarCategoria(nombre) =>
         IF \E c \in 1..Len(cats) : cats[c].nombre = nombre
         THEN /\ resultado' = MsgYaExiste
              /\ cats' = cats
              /\ categorias' = categorias
              /\ idCategoria' = idCategoria
         ELSE /\ resultado' = MsgCategoriaAgregada
              /\ Len(cats') = Len(cats) + 1
              /\ \A c \in 1..Len(cats) : cats'[c] = cats[c]
              /\ cats'[Len(cats')] = Categoria(idCategoria, nombre)
              /\ categorias' = Append(categorias, Len(cats'))
              /\ idCategoria' = idCategoria + 1
    ]_vars

\* C15 witness: agregarCategoria was refused in a forest where a name is held
\* by a subcategory and by no root (the state after agregarCategoria of that
\* name)
C15_Testigo ==
  /\ resultado = MsgYaExiste
  /\ \E c \in 1..Len(cats) :
       /\ cats[c].subcategorias # <<>>
       /\ \A r \in 1..Len(categorias) :
            cats[categorias[r]].nombre # cats[cats[c].subcategorias[1]].nombre

\* the messages of the calls that fail: the category exists already, the
\* category (or the parent category) does not exist, the task does not exist,
\* there is nothing to undo, nothing to redo, no urgent task
Fallos == {MsgYaExiste, MsgCategoriaNoExiste, MsgTareaNoExiste,
           MsgNadaQueDeshacer, MsgNadaQueRehacer, MsgSinUrgentes}

\* C16: a call that fails with one of the named failures changes nothing:
\* the categories, the task lists, the fields of the tasks, the queues of
\* urgent tasks, both id counters, historial_acciones and historial_deshacer
\* are as before the call.
C16_FalloNoCambiaNada ==
  [][resultado' \in Fallos =>
       /\ categorias' = categorias
       /\ cats' = cats
       /\ objs' = objs
       /\ idCategoria' = idCategoria
       /\ idTarea' = idTarea
       /\ historial_acciones' = historial_acciones
       /\ historial_deshacer' = historial_deshacer
    ]_vars

\* C16 witness: a call failed because the task does not exist, while there
\* were tasks, urgent tasks and records in both histories
C16_Testigo ==
  /\ resultado = MsgTareaNoExiste
  /\ historial_acciones # <<>>
  /\ historial_deshacer # <<>>
  /\ \E c \in 1..Len(cats) : cats[c].tareasUrgentes # <<>>

\* the scenario of C17, at the moment mostrarTareasOrdenadas("Work") has
\* printed: Report (priority 1, due 01/01/2030, id 1) and Email (priority 3,
\* due 01/01/2025, id 2) were added to Work in this order, then
\* eliminarTarea(1, "Work"), then deshacer, which put Report back at the end
Report == Tareas(1, "Report", "informe", 1, 20300101)

Email == Tareas(2, "Email", "correo", 3, 20250101)

C17_Escenario ==
  /\ resultado = MsgListado
  /\ objs = <<Report, Email>>
  /\ LET work == encontrarCategoria(None, "Work")
     IN  /\ work # None
         /\ cats[work].tareas = <<2, 1>>
         /\ Len(salida) = Len(cats[work].tareas)
         /\ historial_acciones = <<Registro("agregar", 1, work),
                                   Registro("agregar", 2, work)>>
         /\ historial_deshacer = <<Registro("eliminar", 1, work)>>

\* C17 as stated: in that scenario the sorted listing of Work is
\* [Email, Report].
C17_EmailAntes ==
  C17_Escenario => salida = <<str(Email), str(Report)>>

\* C17: in that scenario the stored list of Work is [Email, Report], and the
\* sorted listing of Work is [Report, Email]: priority 1 comes before
\* priority 3, wherever deshacer put Report back.
C17_ReportAntes ==
  C17_Escenario => salida = <<str(Report), str(Email)>>

\* C17 witness: the scenario has been run up to the listing
C17_Testigo == C17_Escenario

\* the key of task t in the listing: (x.prioridad, x.fecha_vencimiento)
ClaveMenor(t, u) ==
  \/ objs[t].prioridad < objs[u].prioridad
  \/ /\ objs[t].prioridad = objs[u].prioridad
     /\ objs[t].fecha_vencimiento < objs[u].fecha_vencimiento

ClaveIgual(t, u) ==
  /\ objs[t].prioridad = objs[u].prioridad
  /\ objs[t].fecha_vencimiento = objs[u].fecha_vencimiento

\* salida lists the tasks of lista, each once, ascending by key, tasks with
\* equal keys in the order they have in lista
ListadoDe(lista) ==
  \E p \in Permutaciones(Len(lista)) :
    /\ salida = [i \in 1..Len(lista) |-> str(objs[lista[p[i]]])]
    /\ \A i, j \in 1..Len(lista) :
         i < j => \/ ClaveMenor(lista[p[i]], lista[p[j]])
                  \/ ClaveIgual(lista[p[i]], lista[p[j]]) /\ p[i] < p[j]

\* C18: the listing in order of a category shows exactly the tasks of the
\* category's own task list (each once; no task of a subcategory, no urgent
\* task), ascending by priority and then by due date, tasks equal on both in
\* the order of the task list; and the listing changes neither the stored
\* task lists nor anything else of the registry.
C18_ListadoOrdenado ==
  /\ [](resultado = MsgListado =>
          \E c \in 1..Len(cats) :
            /\ cats[c].tareas # <<>>
            /\ ListadoDe(cats[c].tareas))
  /\ [][\A nombre \in Nombres :
          mostrarTareasOrdenadas(nombre) =>
            /\ UNCHANGED manejador
            /\ LET c == encontrarCategoria(None, nombre)
               IN  (c # None /\ cats[c].tareas # <<>>) =>
                     /\ resultado' = MsgListado
                     /\ ListadoDe(cats[c].tareas)'
       ]_vars

\* C18 witness: three tasks with three different lines were listed; the
\* first and the third stored have the same key and the third was created
\* before the first, the second has the same priority and an earlier due
\* date: the listing shows the second, then the first, then the third
C18_Testigo ==
  /\ resultado = MsgListado
  /\ LET lista == cats[1].tareas
     IN  /\ Len(lista) = 3
         /\ ClaveMenor(lista[2], lista[1])
         /\ objs[lista[2]].prioridad = objs[lista[1]].prioridad
         /\ ClaveIgual(lista[1], lista[3])
         /\ lista[3] < lista[1]
         /\ str(objs[lista[1]]) # str(objs[lista[3]])
         /\ salida = <<str(objs[lista[2]]), str(objs[lista[1]]),
                       str(objs[lista[3]])>>

\* the categories of the forest in depth-first pre-order: the roots in the
\* order of self.categorias, each category before its subcategories
RECURSIVE PreOrden(_)
PreOrden(lista) ==
  IF lista = <<>>
  THEN <<>>
  ELSE <<Head(lista)>> \o PreOrden(cats[Head(lista)].subcategorias)
                       \o PreOrden(Tail(lista))

\* the first category in pre-order with this id or this name, None if none
PrimeraEnPreOrden(id, nombre) ==
  LET orden == PreOrden(categorias)
      aciertos == {i \in DOMAIN orden :
                     cats[orden[i]].id = id \/ cats[orden[i]].nombre = nombre}
  IN  IF aciertos = {}
      THEN None
      ELSE orden[CHOOSE i \in aciertos : \A j \in aciertos : i <= j]

\* C19: encontrarCategoria(id, nombre) returns the first category, in
\* depth-first pre-order over the forest (roots in creation order, each
\* category before its subtree), whose id is id or whose name is nombre; a
\* category that matches on one of the two only is returned when the two
\* disagree; None is returned only when no category has the id or the name.
C19_PrimeraEnPreOrden ==
  hallada # SinBuscar =>
    hallada.categoria = PrimeraEnPreOrden(hallada.id, hallada.nombre)

\* C19 witness: the call returned a subcategory that has the name but not
\* the id, while a category later in pre-order has the id but not the name
C19_Testigo ==
  /\ hallada.categoria # None
  /\ hallada.categoria \notin {categorias[r] : r \in DOMAIN categorias}
  /\ cats[hallada.categoria].nombre = hallada.nombre
  /\ cats[hallada.categoria].id # hallada.id
  /\ \E c \in 1..Len(cats) :
       /\ cats[c].id = hallada.id
       /\ cats[c].nombre # hallada.nombre

\* the places (the root list, or the subcategory list of a category, and the
\* index) where category c is held
LugaresDeCategoria(c) ==
  {<<None, i>> : i \in {j \in DOMAIN categorias : categorias[j] = c}}
  \cup
  UNION {{<<d, i>> : i \in {j \in DOMAIN cats[d].subcategorias :
                              cats[d].subcategorias[j] = c}} :
         d \in 1..Len(cats)}

\* lista is the beginning of larga
Prefijo(lista, larga) ==
  /\ Len(lista) <= Len(larga)
  /\ \A i \in 1..Len(lista) : larga[i] = lista[i]

\* C20: the ids of the categories are pairwise distinct over the whole
\* forest, and are 1, 2, 3, ... in the order of the successful
\* agregarCategoria and agregarSubcategoria calls (one counter for roots and
\* subcategories); a creation that fails takes no id; and no call removes a
\* category or moves it to another parent: a category stays where it was
\* put, with its id and its name.
C20_IdsDeCategoria ==
  /\ [](/\ \A c \in 1..Len(cats) : cats[c].id = c
        /\ idCategoria = Len(cats) + 1
        /\ \A c \in 1..Len(cats) : Cardinality(LugaresDeCategoria(c)) = 1)
  /\ [][ /\ Prefijo(categorias, categorias')
         /\ Len(cats) <= Len(cats')
         /\ \A c \in 1..Len(cats) :
              /\ cats'[c].id = cats[c].id
              /\ cats'[c].nombre = cats[c].nombre
              /\ Prefijo(cats[c].subcategorias, cats'[c].subcategorias)
         /\ resultado' \in {MsgCategoriaAgregada, MsgSubcategoriaAgregada} =>
              /\ Len(cats') = Len(cats) + 1
              /\ cats'[Len(cats')].id = idCategoria
              /\ idCategoria' = idCategoria + 1
         /\ resultado' \notin {MsgCategoriaAgregada, MsgSubcategoriaAgregada} =>
              /\ Len(cats') = Len(cats)
              /\ idCategoria' = idCategoria
     ]_vars

\* C20 witness: agregarCategoria failed after a root, a subcategory and a
\* second root had been created, in this order
C20_Testigo ==
  /\ resultado = MsgYaExiste
  /\ Len(cats) = 3
  /\ categorias = <<1, 3>>
  /\ cats[1].subcategorias = <<2>>

\* C25: a root category keeps being the category its name resolves to,
\* whatever categories and subcategories are created: for every root
\* category, encontrarCategoria(nombre = its name) returns that root, so the
\* calls that name it keep working on the same task list.
C25_RaizEstable ==
  \A r \in DOMAIN categorias :
    encontrarCategoria(None, cats[categorias[r]].nombre) = categorias[r]


\* a task with id idT is held somewhere (a task list or a queue of urgent
\* tasks), but not in the task list of category c
EnOtraParte(idT, c) ==
  \E t \in 1..Len(objs) :
    /\ objs[t].id = idT
    /\ ~Contiene(cats[c].tareas, t)
    /\ \E d \in 1..Len(cats) :
         Contiene(cats[d].tareas, t) \/ Contiene(cats[d].tareasUrgentes, t)

\* C22: eliminarTarea and modificarTarea look the id up only in the task list
\* of the category the name resolves to: when the task with that id is held
\* in a subcategory, in another category or in a queue of urgent tasks, they
\* report that the task does not exist, put no record on historial_acciones
\* and change nothing. (A step that prints none of the four messages of
\* eliminarTarea and modificarTarea is a step of neither.)
C22_SoloLaListaPropia ==
  [][ \/ resultado' = MsgTareaNoExiste /\ UNCHANGED manejador
      \/ resultado' \notin {MsgTareaEliminada, MsgTareaModificada,
                            MsgTareaNoExiste, MsgCategoriaNoExiste}
      \/ \A nombre \in Nombres :
           LET c == encontrarCategoria(None, nombre)
           IN  c # None =>
                 \A idT \in 1..idTarea :
                   EnOtraParte(idT, c) =>
                     /\ ~eliminarTarea(idT, nombre)
                     /\ \A datos \in DatosTarea :
                          ~modificarTarea(idT, datos, nombre)
    ]_vars

\* C22 witness: a call reported that the task does not exist while every
\* task created is held outside the root's task list: one in the task list of
\* a subcategory, one in a queue of urgent tasks
C22_Testigo ==
  /\ resultado = MsgTareaNoExiste
  /\ Len(objs) = 2
  /\ \A c \in DOMAIN categorias : cats[categorias[c]].tareas = <<>>
  /\ \E t \in 1..Len(objs) : \E l \in Lugares(t) : l[2] = "tareas"
  /\ \E t \in 1..Len(objs) : \E l \in Lugares(t) : l[2] = "tareasUrgentes"


\* the tasks put into the queue of category c and not yet taken out, in the
\* order they were put in
Pendientes(c) ==
  SubSeq(encolados[c], Len(procesados[c]) + 1, Len(encolados[c]))

\* C23: mostrarTareasUrgentes(nombre) shows the urgent tasks queued in the
\* category, in the order they were put in (oldest first), and changes
\* neither the queue nor anything else of the registry; so a
\* procesarTareaUrgente(nombre) that follows it takes out the task of the
\* first line shown.
C23_MostrarUrgentes ==
  /\ [](\A nombre \in Nombres :
          resultado = MsgUrgentesEn(nombre) =>
            LET c == encontrarCategoria(None, nombre)
            IN  /\ c # None
                /\ Pendientes(c) # <<>>
                /\ salida = [i \in 1..Len(Pendientes(c)) |->
                               lineaUrgente(objs[Pendientes(c)[i]])])
  /\ [][\A nombre \in Nombres :
          /\ mostrarTareasUrgentes(nombre) => UNCHANGED manejador
          /\ (resultado = MsgUrgentesEn(nombre)
                /\ procesarTareaUrgente(nombre)) =>
               LET c == encontrarCategoria(None, nombre)
               IN  /\ resultado' = MsgProcesando
                   /\ objs[procesados'[c][Len(procesados'[c])]].id
                        = salida[1][1]
                   /\ salida' = <<SubSeq(salida[1], 2, 5)>>
                   /\ cats'[c].tareasUrgentes = Tail(cats[c].tareasUrgentes)
       ]_vars

\* C23 witness: the queue of a category was shown after a task had been taken
\* out of it, and two tasks with different fields were shown
C23_Testigo ==
  \E nombre \in Nombres :
    /\ resultado = MsgUrgentesEn(nombre)
    /\ Len(salida) = 2
    /\ SubSeq(salida[1], 2, 5) # SubSeq(salida[2], 2, 5)
    /\ procesados[encontrarCategoria(None, nombre)] # <<>>


\* C21: undo is last in, first out, and every record has its own snapshot:
\* after n successive successful modificarTarea calls on one task followed
\* by undos, nothing else in between, the fields of the task after the k-th
\* undo are the fields it had just before the (n-k+1)-th modification; after
\* n undos they are the fields it had before the first.
C21_DeshacerEnOrden ==
  ronda.fase = "deshacer" =>
    /\ resultado = MsgDeshecha
    /\ CamposDe(ronda.tarea) =
         ronda.antes[Len(ronda.antes) - ronda.deshechas + 1]

\* C21 witness: two modifications of a task were undone, and the task had
\* different fields before the first and before the second
C21_Testigo ==
  /\ ronda.fase = "deshacer"
  /\ Len(ronda.antes) = 2
  /\ ronda.deshechas = 2
  /\ ronda.antes[1] # ronda.antes[2]
  /\ historial_deshacer # <<>>

\* C24: starting with historial_deshacer empty, after any successful
\* agregarTarea and eliminarTarea calls, k undos followed by k redos (k at
\* most the number of records, nothing else in between) leave the task list
\* of every category exactly as it was before the undos (same tasks, same
\* order), and historial_acciones with the records it had before the undos.
C24_DeshacerRehacerK ==
  (ronda.fase = "rehacer" /\ ronda.rehechas = ronda.deshechas) =>
    /\ resultado = MsgRehecha
    /\ Listas = ronda.listas
    /\ historial_acciones = ronda.historial
    /\ historial_deshacer = <<>>

\* C24 witness: the removal of one task and the addition of another were
\* undone and redone, and a task list holds a task
C24_Testigo ==
  /\ ronda.fase = "rehacer"
  /\ ronda.rehechas = 2
  /\ ronda.deshechas = 2
  /\ Cima(historial_acciones).accion = "eliminar"
  /\ historial_acciones[Len(historial_acciones) - 1].accion = "agregar"
  /\ Cima(historial_acciones).tarea
       # historial_acciones[Len(historial_acciones) - 1].tarea
  /\ \E c \in 1..Len(cats) : cats[c].tareas # <<>>


====
